---- MODULE Spec2Model ----
(***************************************************************************)
(* A model of three parts of the document engine:                          *)
(*   - LocationFilter            (borb/toolkit/location/location_filter.py)*)
(*   - ChunkOfText               (borb/pdf/canvas/layout/text/             *)
(*                                chunk_of_text.py)                        *)
(*   - DefaultFontDictionaryTransformer                                    *)
(*                               (ptext/tranform/font/                     *)
(*                                default_font_dictionary_transformer.py)  *)
(* Each part has its own specification (SpecFilter, SpecLayout,            *)
(* SpecTransform); the variables of the other parts stay at their idle     *)
(* values.                                                                 *)
(***************************************************************************)
EXTENDS Integers, Sequences, FiniteSets, TLC

VARIABLES
    \* ---- LocationFilter
    rectangle,        \* self._rectangle
    listeners,        \* self._listeners, in the order add_listener appended them
    event,            \* the event of the last _event_occurred call (NoneValue before it)
    attached,         \* self._listeners as it was when that call began
    forwarded,        \* the listeners whose _event_occurred that call ran, in call order
    outcome,          \* how that call ended: "returned" or "AssertionError"
    \* ---- ChunkOfText
    page,             \* the Page dictionary: Resources / Resources.Font
    content,          \* the page's content stream: the fragments appended so far
    regLog,           \* history: the calls of _get_font_resource_name
    layout,           \* the last _do_layout_without_padding call and its chunk
    nLayouts,         \* history: how many layout calls were made
    \* ---- DefaultFontDictionaryTransformer
    pc,               \* where the transform call is
    object_to_transform,
    parent_object,
    event_listeners,
    font_obj,         \* the typed object (NoneValue when no subtype matched)
    pos,              \* index of the next item of the running loop
    rootCalls,        \* history: the calls made to the root transformer
    reported,         \* whether "Unsupported font type" was printed
    raised            \* the exception that ended the call, or "None"

filterVars == <<rectangle, listeners, event, attached, forwarded, outcome>>
layoutVars == <<page, content, regLog, layout, nLayouts>>
transformVars == <<pc, object_to_transform, parent_object, event_listeners,
                   font_obj, pos, rootCalls, reported, raised>>
vars == <<filterVars, layoutVars, transformVars>>

\* Python's None, where the other values are records.
NoneValue == [none |-> TRUE]

\* Sequence helpers.
Last(s) == s[Len(s)]

RECURSIVE SeqsUpTo(_, _)
SeqsUpTo(S, n) ==
    IF n = 0 THEN {<<>>}
    ELSE LET shorter == SeqsUpTo(S, n - 1)
         IN  shorter \cup {Append(s, x) : s \in {t \in shorter : Len(t) = n - 1}, x \in S}

\* The idle values of the three parts.
FilterIdle ==
    /\ rectangle = NoneValue
    /\ listeners = <<>>
    /\ event = NoneValue
    /\ attached = <<>>
    /\ forwarded = <<>>
    /\ outcome = "None"

LayoutIdle ==
    /\ page = NoneValue
    /\ content = <<>>
    /\ regLog = <<>>
    /\ layout = NoneValue
    /\ nLayouts = 0

TransformIdle ==
    /\ pc = "idle"
    /\ object_to_transform = <<>>
    /\ parent_object = NoneValue
    /\ event_listeners = <<>>
    /\ font_obj = NoneValue
    /\ pos = 0
    /\ rootCalls = <<>>
    /\ reported = FALSE
    /\ raised = "None"

(***************************************************************************)
(*                             LocationFilter                              *)
(***************************************************************************)

MaxCoord == 3        \* coordinates range over 0..MaxCoord
MaxListeners == 2    \* add_listener is called at most this often

Coords == 0 .. MaxCoord
ListenerIds == {"l1", "l2"}

Rectangle(x, y, w, h) == [x |-> x, y |-> y, width |-> w, height |-> h]

\* The rectangles a filter is built on: a degenerate one (zero width) included.
FilterRectangles ==
    { Rectangle(0, 0, 2, 2), Rectangle(1, 0, 2, 3),
      Rectangle(1, 1, 1, 2), Rectangle(0, 1, 0, 2) }

\* The events of the interpreter: a ChunkOfTextRenderEvent carries a bounding
\* box (or None), an ImageRenderEvent its own x/y, any other event nothing the
\* filter reads.
TextEvents ==
    { [kind |-> "ChunkOfTextRenderEvent", bb |-> Rectangle(x, y, 1, 1)] :
        x \in Coords, y \in Coords }
    \cup { [kind |-> "ChunkOfTextRenderEvent", bb |-> NoneValue] }
ImageEvents ==
    { [kind |-> "ImageRenderEvent", x |-> x, y |-> y] : x \in Coords, y \in Coords }
OtherEvents ==
    { [kind |-> k] : k \in {"BeginPageEvent", "EndPageEvent"} }
Events == TextEvents \cup ImageEvents \cup OtherEvents

\* Mutant of Contains: the closed interval on the lower edges.
ContainsClosedLow(r, x, y) ==
    /\ r.x <= x /\ x < r.x + r.width
    /\ r.y <= y /\ y < r.y + r.height

\* location_filter.py 38-42 and 49-53: the chained comparisons.
Contains(r, x, y) ==
    /\ r.x < x /\ x < r.x + r.width
    /\ r.y < y /\ y < r.y + r.height

\* Mutant of Forward: the default branch is missing, unknown kinds are dropped.
ForwardKnownOnly(r, ls, e) ==
    IF e.kind = "ChunkOfTextRenderEvent"
    THEN IF e.bb = NoneValue THEN <<>>
         ELSE IF Contains(r, e.bb.x, e.bb.y) THEN ls ELSE <<>>
    ELSE IF e.kind = "ImageRenderEvent"
    THEN IF Contains(r, e.x, e.y) THEN ls ELSE <<>>
    ELSE <<>>

\* The listeners an event reaches, in call order, as _event_occurred decides.
Forward(r, ls, e) ==
    IF e.kind = "ChunkOfTextRenderEvent"
    THEN IF e.bb = NoneValue THEN <<>>
         ELSE IF Contains(r, e.bb.x, e.bb.y) THEN ls ELSE <<>>
    ELSE IF e.kind = "ImageRenderEvent"
    THEN IF Contains(r, e.x, e.y) THEN ls ELSE <<>>
    ELSE ls

FilterInit ==
    /\ rectangle \in FilterRectangles
    /\ listeners = <<>>
    /\ event = NoneValue
    /\ attached = <<>>
    /\ forwarded = <<>>
    /\ outcome = "None"
    /\ LayoutIdle
    /\ TransformIdle

add_listener(l) ==
    /\ Len(listeners) < MaxListeners
    /\ listeners' = Append(listeners, l)
    /\ UNCHANGED <<rectangle, event, attached, forwarded, outcome>>
    /\ UNCHANGED <<layoutVars, transformVars>>

\* location_filter.py 37: assert bb is not None.
Outcome(e) ==
    IF e.kind = "ChunkOfTextRenderEvent" /\ e.bb = NoneValue
    THEN "AssertionError" ELSE "returned"

event_occurred(e) ==
    /\ event' = e
    /\ attached' = listeners
    /\ forwarded' = Forward(rectangle, listeners, e)
    /\ outcome' = Outcome(e)
    /\ UNCHANGED <<rectangle, listeners>>
    /\ UNCHANGED <<layoutVars, transformVars>>

AddListenerStep == \E l \in ListenerIds : add_listener(l)
EventStep == \E e \in Events : event_occurred(e)

FilterNext == AddListenerStep \/ EventStep

SpecFilter == FilterInit /\ [][FilterNext]_vars

\* The position the filter tests: the bounding box origin of a text event,
\* the x/y of an image event.
IsPlaced(e) ==
    \/ e.kind = "ChunkOfTextRenderEvent" /\ e.bb # NoneValue
    \/ e.kind = "ImageRenderEvent"
OriginX(e) == IF e.kind = "ChunkOfTextRenderEvent" THEN e.bb.x ELSE e.x
OriginY(e) == IF e.kind = "ChunkOfTextRenderEvent" THEN e.bb.y ELSE e.y

StrictlyInside(e) ==
    /\ rectangle.x < OriginX(e)
    /\ OriginX(e) < rectangle.x + rectangle.width
    /\ rectangle.y < OriginY(e)
    /\ OriginY(e) < rectangle.y + rectangle.height

OnEdge(e) ==
    \/ OriginX(e) = rectangle.x
    \/ OriginX(e) = rectangle.x + rectangle.width
    \/ OriginY(e) = rectangle.y
    \/ OriginY(e) = rectangle.y + rectangle.height

\* C1: a text event (by its bounding box origin) or an image event (by its
\* x/y) is forwarded iff the origin is strictly inside the rectangle on both
\* axes: then it reaches every attached listener exactly once, in the order
\* the listeners were added; an origin on an edge reaches no listener.
C1_StrictContainment ==
    (event # NoneValue /\ IsPlaced(event)) =>
        /\ StrictlyInside(event) => forwarded = attached
        /\ ~StrictlyInside(event) => forwarded = <<>>
        /\ OnEdge(event) => forwarded = <<>>

C1_Witness ==
    /\ event # NoneValue
    /\ event.kind = "ChunkOfTextRenderEvent"
    /\ event.bb # NoneValue
    /\ event.bb.x = rectangle.x + 1
    /\ event.bb.y = rectangle.y + 1
    /\ StrictlyInside(event)
    /\ attached = <<"l2", "l1">>
    /\ forwarded = <<"l2", "l1">>

\* C2: an event that is neither a text nor an image event reaches every
\* attached listener exactly once, whatever the rectangle is, and the call
\* returns normally.
C2_PassThrough ==
    (event # NoneValue
        /\ event.kind \notin {"ChunkOfTextRenderEvent", "ImageRenderEvent"}) =>
        /\ forwarded = attached
        /\ outcome = "returned"

C2_Witness ==
    /\ event # NoneValue
    /\ event.kind = "EndPageEvent"
    /\ rectangle.width = 0
    /\ attached = <<"l1", "l2">>
    /\ forwarded = <<"l1", "l2">>


(***************************************************************************)
(*                  ChunkOfText: font resource registration                *)
(***************************************************************************)

MaxRegs == 3         \* _get_font_resource_name is called at most this often

FontIds == {"fa", "fb", "fc"}

\* Name("F%d" % font_index)
FName(font_index) == "F" \o ToString(font_index)

\* A page: whether it holds "Resources", whether that holds "Font", and the
\* Font dictionary as its items in insertion order.
Page(hasResources, hasFont, fonts) ==
    [hasResources |-> hasResources, hasFont |-> hasFont, fonts |-> fonts]
Item(k, v) == [k |-> k, v |-> v]

\* The pages a chunk is laid out on: new pages, and pages of a document that
\* was read, whose Font dictionary holds what its producer wrote.
InitialPages ==
    { Page(FALSE, FALSE, <<>>),
      Page(TRUE, FALSE, <<>>),
      Page(TRUE, TRUE, <<>>),
      Page(TRUE, TRUE, <<Item("F1", "fa")>>),
      Page(TRUE, TRUE, <<Item("F2", "fc")>>),
      Page(TRUE, TRUE, <<Item("Helv", "fb")>>),
      Page(TRUE, TRUE, <<Item("F1", "fa"), Item("F2", "fb")>>),
      Page(TRUE, TRUE, <<Item("F3", "fc"), Item("Helv", "fa")>>) }

\* dict[k] = v: an existing key keeps its place and takes the new value, a
\* new key goes last.
DictSet(items, k, v) ==
    IF \E i \in 1 .. Len(items) : items[i].k = k
    THEN [i \in 1 .. Len(items) |->
            IF items[i].k = k THEN Item(k, v) ELSE items[i]]
    ELSE Append(items, Item(k, v))

\* chunk_of_text.py 99-101: the keys whose value equals the font, in order.
FontResourceNames(items, font) ==
    SelectSeq(items, LAMBDA it : it.v = font)

\* chunk_of_text.py 91-107. The page after the call, the name returned, and
\* the font_index a new name was made from (0 when a name was reused).
GetFontResourceName(font, p) ==
    LET found == FontResourceNames(p.fonts, font)
        font_index == Len(p.fonts) + 1
    IN  IF Len(found) > 0
        THEN [page |-> Page(TRUE, TRUE, p.fonts),
              name |-> found[1].k, font_index |-> 0]
        ELSE [page |-> Page(TRUE, TRUE, DictSet(p.fonts, FName(font_index), font)),
              name |-> FName(font_index), font_index |-> font_index]

RegisterInit ==
    /\ page \in InitialPages
    /\ content = <<>>
    /\ regLog = <<>>
    /\ layout = NoneValue
    /\ nLayouts = 0
    /\ FilterIdle
    /\ TransformIdle

get_font_resource_name(font) ==
    LET r == GetFontResourceName(font, page)
    IN  /\ Len(regLog) < MaxRegs
        /\ page' = r.page
        /\ regLog' = Append(regLog,
                            [font |-> font, name |-> r.name,
                             font_index |-> r.font_index,
                             lenBefore |-> Len(page.fonts),
                             lenAfter |-> Len(r.page.fonts)])
        /\ UNCHANGED <<content, layout, nLayouts>>
        /\ UNCHANGED <<filterVars, transformVars>>

RegisterStep == \E font \in FontIds : get_font_resource_name(font)

RegisterNext == RegisterStep

SpecRegister == RegisterInit /\ [][RegisterNext]_vars

\* The name -> font entries of the page's Font dictionary.
Entries(p) == { p.fonts[i] : i \in 1 .. Len(p.fonts) }

\* C3: registering the same font twice in a row returns the same name and the
\* second call adds no entry; two distinct fonts never get the same name, and
\* the names made for new fonts carry strictly increasing numbers.
C3_Dedup ==
    \A i \in 1 .. Len(regLog) : \A j \in 1 .. Len(regLog) :
        i < j =>
            /\ (j = i + 1 /\ regLog[i].font = regLog[j].font) =>
                  /\ regLog[j].name = regLog[i].name
                  /\ regLog[j].lenAfter = regLog[j].lenBefore
            /\ regLog[i].font # regLog[j].font =>
                  regLog[i].name # regLog[j].name
            /\ (regLog[i].font_index > 0 /\ regLog[j].font_index > 0) =>
                  regLog[i].font_index < regLog[j].font_index

\* C4: a registration never overwrites or removes an entry of the page's
\* Font dictionary: every name -> font entry is still there after the call.
C4_NeverOverwrites ==
    [][\A e \in Entries(page) : e \in Entries(page')]_vars


(***************************************************************************)
(*                  ChunkOfText: encoding and layout                       *)
(***************************************************************************)

MaxLen == 2          \* a chunk's text has at most this many characters
MaxLayouts == 1      \* _do_layout_without_padding is called at most this often

\* The characters of the texts, as code points: line feed, "(", "A".
Chars == {10, 40, 65}
Texts == SeqsUpTo(Chars, MaxLen)

\* unicode_to_character_identifier returns None for a character the font
\* cannot represent.
NoCid == -1

\* The fonts' character identifiers. fa maps every character to its code
\* point; fb gives "(" and "A" other identifiers; fc has none for line feed
\* and identifier 0 for "A".
unicode_to_character_identifier(font, c) ==
    CASE font = "fb" /\ c = 40 -> 300
      [] font = "fb" /\ c = 65 -> 10
      [] font = "fc" /\ c = 10 -> NoCid
      [] font = "fc" /\ c = 65 -> 0
      [] OTHER -> c

\* A Python str is the sequence of its code points.
\* The digits of n in the given base, most significant first ("0" for 0),
\* as hex() and oct() print them behind their prefix.
RECURSIVE Digits(_, _)
Digits(n, base) ==
    LET d == n % base
        ch == IF d < 10 THEN 48 + d ELSE 87 + d
    IN  IF n < base THEN <<ch>> ELSE Append(Digits(n \div base, base), ch)

\* chunk_of_text.py 128-131: "<" + even-length hex + ">".
HexGroup(cid) ==
    LET hex_rep == Digits(cid, 16)
        padded == IF Len(hex_rep) % 2 = 1 THEN <<48>> \o hex_rep ELSE hex_rep
    IN  <<60>> \o padded \o <<62>>

\* chunk_of_text.py 120-132. "[" sOut "] TJ", or the assertion failing at the
\* first character without an identifier.
RECURSIVE HexBody(_, _)
HexBody(text, font) ==
    IF text = <<>> THEN [ok |-> TRUE, str |-> <<>>]
    ELSE LET cid == unicode_to_character_identifier(font, Head(text))
             rest == HexBody(Tail(text), font)
         IN  IF cid = NoCid \/ ~rest.ok
             THEN [ok |-> FALSE, str |-> <<>>]
             ELSE [ok |-> TRUE, str |-> HexGroup(cid) \o rest.str]

write_text_bytes_in_hex(text, font) ==
    LET b == HexBody(text, font)
    IN  IF b.ok
        THEN [ok |-> TRUE, str |-> <<91>> \o b.str \o <<93, 32, 84, 74>>]
        ELSE [ok |-> FALSE, str |-> <<>>]

\* chunk_of_text.py 140-157: the escape of one character.
Escape(c) ==
    IF c = 13 THEN <<92, 114>>
    ELSE IF c = 10 THEN <<92, 110>>
    ELSE IF c = 9 THEN <<92, 116>>
    ELSE IF c = 8 THEN <<92, 98>>
    ELSE IF c = 12 THEN <<92, 102>>
    ELSE IF c \in {40, 41, 92} THEN <<92, c>>
    ELSE IF 0 <= c /\ c < 8 THEN <<92, 48, 48>> \o Digits(c, 8)
    ELSE IF 8 <= c /\ c < 32 THEN <<92, 48>> \o Digits(c, 8)
    ELSE <<c>>

RECURSIVE AsciiBody(_)
AsciiBody(text) ==
    IF text = <<>> THEN <<>> ELSE Escape(Head(text)) \o AsciiBody(Tail(text))

\* chunk_of_text.py 134-159. "(" sOut ") Tj".
write_text_bytes_in_ascii(text) ==
    [ok |-> TRUE, str |-> <<40>> \o AsciiBody(text) \o <<41, 32, 84, 106>>]

\* Mutant of HexMode: only the first character is compared.
HexModeFirstOnly(text, font) ==
    /\ text # <<>>
    /\ text[1] # unicode_to_character_identifier(font, text[1])

\* chunk_of_text.py 110-114.
HexMode(text, font) ==
    \E i \in 1 .. Len(text) :
        text[i] # unicode_to_character_identifier(font, text[i])

\* chunk_of_text.py 109-118.
write_text_bytes(text, font) ==
    IF HexMode(text, font)
    THEN write_text_bytes_in_hex(text, font)
    ELSE write_text_bytes_in_ascii(text)

\* Mutant of EncodedBytes: the code points are measured, not the identifiers.
EncodedBytesCodePoints(text, font) ==
    [i \in 1 .. Len(text) |-> text[i]]

\* chunk_of_text.py 188-190: cid or 0, for every character.
EncodedBytes(text, font) ==
    [i \in 1 .. Len(text) |->
        LET cid == unicode_to_character_identifier(font, text[i])
        IN  IF cid = NoCid \/ cid = 0 THEN 0 ELSE cid]

\* GlyphLine(encoded_bytes, font, font_size).get_width_in_text_space(): the
\* metrics provider is a pure function of its arguments, kept uninterpreted.
get_width_in_text_space(encoded_bytes, font, font_size) ==
    [glyphs |-> encoded_bytes, font |-> font, font_size |-> font_size]

\* LayoutElement._append_to_content_stream: the fragment goes last.
append_to_content_stream(stream, fragment) == Append(stream, fragment)

\* The boxes and sizes of the layout calls.
LayoutBoxes == { Rectangle(1, 2, 2, 3) }
FontSizes == {2}

\* Mutant of DoLayoutWithoutPadding: the fragment is appended before the text
\* is encoded, with whatever had been encoded when the encoder failed.
DoLayoutAppendFirst(text, font, font_size, box, p, stream) ==
    LET reg == GetFontResourceName(font, p)
        enc == write_text_bytes(text, font)
        baseline == box.y + box.height - font_size
        fragment == [rg |-> <<0, 0, 0>>, Tf |-> <<reg.name, 1>>,
                     Tm |-> <<font_size, 0, 0, font_size, box.x, baseline>>,
                     show |-> enc.str]
        layout_rect == Rectangle(box.x, baseline,
                                 get_width_in_text_space(
                                     EncodedBytes(text, font), font, font_size),
                                 font_size)
    IN  [page |-> reg.page,
         content |-> append_to_content_stream(stream, fragment),
         bounding_box |-> IF enc.ok THEN layout_rect ELSE NoneValue,
         result |-> IF enc.ok THEN layout_rect ELSE NoneValue,
         raised |-> IF enc.ok THEN "None" ELSE "AssertionError"]

\* chunk_of_text.py 161-204. The arguments of the % operator are evaluated in
\* order: the font is registered, then the text is encoded; only then is the
\* fragment appended, the rectangle computed and stored on the chunk.
DoLayoutWithoutPadding(text, font, font_size, box, p, stream) ==
    LET reg == GetFontResourceName(font, p)
        enc == write_text_bytes(text, font)
        baseline == box.y + box.height - font_size
        fragment == [rg |-> <<0, 0, 0>>, Tf |-> <<reg.name, 1>>,
                     Tm |-> <<font_size, 0, 0, font_size, box.x, baseline>>,
                     show |-> enc.str]
        layout_rect == Rectangle(box.x, baseline,
                                 get_width_in_text_space(
                                     EncodedBytes(text, font), font, font_size),
                                 font_size)
    IN  IF enc.ok
        THEN [page |-> reg.page,
              content |-> append_to_content_stream(stream, fragment),
              bounding_box |-> layout_rect,
              result |-> layout_rect,
              raised |-> "None"]
        ELSE [page |-> reg.page,
              content |-> stream,
              bounding_box |-> NoneValue,
              result |-> NoneValue,
              raised |-> "AssertionError"]

\* Content a page that was read already holds.
InitialContents == { <<>>, <<"q 1 0 0 1 0 0 cm Q">> }

LayoutInit ==
    /\ page \in InitialPages
    /\ content \in InitialContents
    /\ regLog = <<>>
    /\ layout = NoneValue
    /\ nLayouts = 0
    /\ FilterIdle
    /\ TransformIdle

\* A chunk is built on (text, font, font_size) and laid out in a box.
do_layout_without_padding(text, font, font_size, box) ==
    LET r == DoLayoutWithoutPadding(text, font, font_size, box, page, content)
    IN  /\ nLayouts < MaxLayouts
        /\ nLayouts' = nLayouts + 1
        /\ page' = r.page
        /\ content' = r.content
        /\ layout' = [text |-> text, font |-> font, font_size |-> font_size,
                      box |-> box, bounding_box |-> r.bounding_box,
                      result |-> r.result, raised |-> r.raised]
        /\ UNCHANGED regLog
        /\ UNCHANGED <<filterVars, transformVars>>

LayoutStep ==
    /\ nLayouts < MaxLayouts
    /\ \E text \in Texts, font \in FontIds, font_size \in FontSizes, box \in LayoutBoxes :
           do_layout_without_padding(text, font, font_size, box)

LayoutNext == LayoutStep

SpecLayout == LayoutInit /\ [][LayoutNext]_vars


\* What the claims about a layout call read.
Cids(text, font) ==
    [i \in 1 .. Len(text) |-> unicode_to_character_identifier(font, text[i])]
Count(s, c) == Cardinality({i \in 1 .. Len(s) : s[i] = c})
EndsWith(s, t) ==
    /\ Len(s) >= Len(t)
    /\ SubSeq(s, Len(s) - Len(t) + 1, Len(s)) = t
Laid == layout # NoneValue
Completed == Laid /\ layout.raised = "None"
Emitted == Last(content).show

\* "(...) Tj": no array bracket, no angle bracket group.
IsLiteralForm(s) ==
    /\ Len(s) >= 5
    /\ s[1] = 40
    /\ EndsWith(s, <<41, 32, 84, 106>>)
    /\ Count(s, 91) = 0 /\ Count(s, 60) = 0 /\ Count(s, 62) = 0

\* "[<..>...] TJ" with n groups of hex digits and nothing else in the array.
IsHexForm(s, n) ==
    /\ Len(s) >= 5
    /\ s[1] = 91
    /\ EndsWith(s, <<93, 32, 84, 74>>)
    /\ Count(s, 60) = n /\ Count(s, 62) = n
    /\ \A i \in 2 .. Len(s) - 4 :
          /\ s[i] \in {60, 62} \cup (48 .. 57) \cup (97 .. 102)
          /\ s[i] = 62 => (i = Len(s) - 4 \/ s[i + 1] = 60)
    /\ n > 0 => (s[2] = 60 /\ s[Len(s) - 4] = 62)

\* C8: when every character's identifier equals its code point the chunk is
\* emitted in the literal form; when at least one differs, at whatever
\* position, and every character has an identifier, the whole chunk is
\* emitted in the hex form with one group per character; no chunk with a
\* differing identifier is emitted in the literal form.
C8_EncodingMode ==
    Laid =>
        LET ids == Cids(layout.text, layout.font)
            n == Len(layout.text)
            allEqual == \A i \in 1 .. n : ids[i] = layout.text[i]
            allHave == \A i \in 1 .. n : ids[i] # NoCid
        IN  /\ allEqual => (Completed /\ IsLiteralForm(Emitted))
            /\ (~allEqual /\ allHave) => (Completed /\ IsHexForm(Emitted, n))
            /\ (~allEqual /\ Completed) => ~IsLiteralForm(Emitted)

C8_Witness ==
    /\ Completed
    /\ layout.text = <<10, 65>>
    /\ layout.font = "fb"
    /\ Emitted = <<91, 60, 48, 97, 62, 60, 48, 97, 62, 93, 32, 84, 74>>

\* The hex form of an identifier sequence, as the consumer of the content
\* stream reads it.
RECURSIVE HexGroups(_)
HexGroups(ids) ==
    IF ids = <<>> THEN <<>> ELSE HexGroup(Head(ids)) \o HexGroups(Tail(ids))

\* C9: the width of the rectangle a completed layout call returns is the
\* metrics provider's result for the identifier sequence the emitted operator
\* encodes: the groups of the hex form are those of the measured sequence, and
\* in the literal form the measured sequence is the code points; every measured
\* value is the font's identifier of its character.
C9_LayoutCoupling ==
    Completed =>
        LET measured == layout.result.width.glyphs
        IN  /\ layout.result.width =
                  get_width_in_text_space(measured, layout.font, layout.font_size)
            /\ Len(measured) = Len(layout.text)
            /\ measured = Cids(layout.text, layout.font)
            /\ IF Emitted[1] = 91
               THEN Emitted = <<91>> \o HexGroups(measured) \o <<93, 32, 84, 74>>
               ELSE measured = layout.text

C9_Witness ==
    /\ Completed
    /\ layout.font = "fc"
    /\ layout.text = <<65, 40>>
    /\ layout.result.width.glyphs = <<0, 40>>
    /\ Emitted[1] = 91

Unrepresentable(text, font) ==
    \E i \in 1 .. Len(text) : unicode_to_character_identifier(font, text[i]) = NoCid

HoldsFont(p, font) == \E e \in Entries(p) : e.v = font

\* C10 as stated: a layout call on a text with a character the font has no
\* identifier for fails and leaves everything as it was: content stream, Font
\* dictionary, stored bounding box.
C10_FailureLeavesNoTrace ==
    [][(nLayouts' # nLayouts /\ Unrepresentable(layout'.text, layout'.font)) =>
          /\ layout'.raised = "AssertionError"
          /\ content' = content
          /\ page'.fonts = page.fonts
          /\ layout'.bounding_box = NoneValue]_vars

\* C10, amended: the call fails, nothing is appended to the content stream and
\* the chunk's bounding box is not set; the font registration made before the
\* encoding stays: afterwards the page has Resources/Font and it holds the
\* font, unchanged if it held the font before.
C10_FailureKeepsRegistration ==
    [][(nLayouts' # nLayouts /\ Unrepresentable(layout'.text, layout'.font)) =>
          /\ layout'.raised = "AssertionError"
          /\ layout'.result = NoneValue
          /\ content' = content
          /\ layout'.bounding_box = NoneValue
          /\ page'.hasResources /\ page'.hasFont
          /\ HoldsFont(page', layout'.font)
          /\ HoldsFont(page, layout'.font) => page'.fonts = page.fonts]_vars

C10_Witness ==
    /\ Laid
    /\ layout.raised = "AssertionError"
    /\ layout.text = <<65, 10>>
    /\ layout.font = "fc"
    /\ layout.bounding_box = NoneValue
    /\ content = <<>>
    /\ page.fonts = <<Item("F1", "fc")>>


(***************************************************************************)
(*                  DefaultFontDictionaryTransformer                       *)
(***************************************************************************)

MaxEventListeners == 2   \* a transform call is given at most this many listeners

\* The primitive values of a font dictionary.
PDFName(n) == [t |-> "PDFName", name |-> n]
PDFNumber(n) == [t |-> "PDFNumber", value |-> n]
PDFNull == [t |-> "PDFNull"]
ParentDictionary == [t |-> "PDFDictionary", id |-> "pages"]

\* default_font_dictionary_transformer.py 37-48: Subtype name -> class.
KnownSubtypes == {"TrueType", "Type0", "Type1", "Type3", "CIDFontType0", "CIDFontType2"}
Subtypes == KnownSubtypes \cup {"MMType1"}

FontClass(subtype_name) ==
    CASE subtype_name = "TrueType" -> "TrueTypeFont"
      [] subtype_name = "Type0" -> "FontType0"
      [] subtype_name = "Type1" -> "FontType1"
      [] subtype_name = "Type3" -> "FontType3"
      [] subtype_name = "CIDFontType0" -> "CIDFontType0"
      [] subtype_name = "CIDFontType2" -> "CIDFontType2"
      [] OTHER -> "None"

\* A freshly constructed font object: no parent, no listeners, no attributes.
NewFont(class) ==
    [class |-> class, parent |-> NoneValue, listeners |-> <<>>, attrs |-> <<>>]

\* The font dictionaries handed to transform (can_be_transformed holds: Type
\* is Font): Type and Subtype, and optionally BaseFont, Parent and FirstChar,
\* in the order the dictionary was filled or in the opposite order.
Reverse(s) == [i \in 1 .. Len(s) |-> s[Len(s) + 1 - i]]
OptionalItems(k, values) == {<<>>} \cup { <<Item(k, v)>> : v \in values }
FontDictionaries ==
    LET filled ==
          { <<Item("Type", PDFName("Font")), Item("Subtype", PDFName(st))>>
                \o bf \o pa \o fc :
              st \in Subtypes,
              bf \in OptionalItems("BaseFont", {PDFName("Helvetica"), PDFNull}),
              pa \in OptionalItems("Parent", {ParentDictionary}),
              fc \in OptionalItems("FirstChar", {PDFNumber(32), PDFNull}) }
    IN  filled \cup { Reverse(d) : d \in filled }

ParentObjects == { NoneValue, [class |-> "Page"] }

\* object_to_transform[PDFName("Subtype")].name
SubtypeName(d) ==
    LET i == CHOOSE i \in 1 .. Len(d) : d[i].k = "Subtype" IN d[i].v.name

\* The root transformer on a primitive value: Null stays Null, any other
\* value becomes its typed counterpart.
RootTransform(v) ==
    IF v = PDFNull THEN PDFNull ELSE [typed |-> v]

\* Mutant of IsParentKey: the Parent edge is not skipped.
NeverParentKey(k) == FALSE

\* default_font_dictionary_transformer.py 62: the parent-link key.
IsParentKey(k) == k = "Parent"

\* Mutant of ChildParent: the caller's parent is handed on.
ChildParentOfCaller(obj, parent) == parent

\* default_font_dictionary_transformer.py 64: the parent handed to the root
\* transformer is the new object.
ChildParent(obj, parent) == obj

\* default_font_dictionary_transformer.py 64: the listeners handed to the
\* root transformer.
ChildListeners(ls) == <<>>

TransformInit ==
    /\ TransformIdle
    /\ FilterIdle
    /\ LayoutIdle

\* Lines 34-54: the call begins; the subtype selects the class, an unknown one
\* is printed; set_parent on the new object.
transform_begin(d, parent, ls) ==
    LET class == FontClass(SubtypeName(d))
    IN  /\ pc = "idle"
        /\ object_to_transform' = d
        /\ parent_object' = parent
        /\ event_listeners' = ls
        /\ reported' = (class = "None")
        /\ font_obj' = IF class = "None" THEN NoneValue
                       ELSE [NewFont(class) EXCEPT !.parent = parent]
        /\ pc' = "listeners"
        /\ pos' = 1
        /\ UNCHANGED <<rootCalls, raised>>
        /\ UNCHANGED <<filterVars, layoutVars>>

\* Lines 57-58: one turn of the listener loop. On None, add_event_listener is
\* an AttributeError.
add_event_listener ==
    /\ pc = "listeners"
    /\ pos <= Len(event_listeners)
    /\ IF font_obj = NoneValue
       THEN /\ pc' = "raised"
            /\ raised' = "AttributeError"
            /\ UNCHANGED <<font_obj, pos>>
       ELSE /\ font_obj' = [font_obj EXCEPT
                               !.listeners = Append(@, event_listeners[pos])]
            /\ pos' = pos + 1
            /\ UNCHANGED <<pc, raised>>
    /\ UNCHANGED <<object_to_transform, parent_object, event_listeners,
                   rootCalls, reported>>
    /\ UNCHANGED <<filterVars, layoutVars>>

\* The listener loop is over, the item loop begins (line 61).
begin_items ==
    /\ pc = "listeners"
    /\ pos > Len(event_listeners)
    /\ pc' = "items"
    /\ pos' = 1
    /\ UNCHANGED <<object_to_transform, parent_object, event_listeners,
                   font_obj, rootCalls, reported, raised>>
    /\ UNCHANGED <<filterVars, layoutVars>>

\* Lines 61-66: one turn of the item loop. Item assignment on None is a
\* TypeError.
convert_item ==
    /\ pc = "items"
    /\ pos <= Len(object_to_transform)
    /\ LET k == object_to_transform[pos].k
           v == object_to_transform[pos].v
           tv == RootTransform(v)
       IN  IF IsParentKey(k)
           THEN /\ pos' = pos + 1
                /\ UNCHANGED <<pc, font_obj, rootCalls, raised>>
           ELSE /\ rootCalls' = Append(rootCalls,
                                       [k |-> k, v |-> v,
                                        parent |-> ChildParent(font_obj, parent_object),
                                        event_listeners |-> ChildListeners(event_listeners),
                                        returned |-> tv])
                /\ IF tv # PDFNull
                   THEN IF font_obj = NoneValue
                        THEN /\ pc' = "raised"
                             /\ raised' = "TypeError"
                             /\ UNCHANGED <<font_obj, pos>>
                        ELSE /\ font_obj' = [font_obj EXCEPT
                                                !.attrs = DictSet(@, k, tv)]
                             /\ pos' = pos + 1
                             /\ UNCHANGED <<pc, raised>>
                   ELSE /\ pos' = pos + 1
                        /\ UNCHANGED <<pc, font_obj, raised>>
    /\ UNCHANGED <<object_to_transform, parent_object, event_listeners, reported>>
    /\ UNCHANGED <<filterVars, layoutVars>>

\* Line 69: return font_obj.
transform_return ==
    /\ pc = "items"
    /\ pos > Len(object_to_transform)
    /\ pc' = "done"
    /\ UNCHANGED <<object_to_transform, parent_object, event_listeners,
                   font_obj, pos, rootCalls, reported, raised>>
    /\ UNCHANGED <<filterVars, layoutVars>>

BeginStep ==
    /\ pc = "idle"
    /\ \E d \in FontDictionaries, parent \in ParentObjects,
          ls \in SeqsUpTo(ListenerIds, MaxEventListeners) :
           transform_begin(d, parent, ls)

TransformNext ==
    \/ BeginStep
    \/ add_event_listener
    \/ begin_items
    \/ convert_item
    \/ transform_return

SpecTransform == TransformInit /\ [][TransformNext]_vars


\* What the claims about a transform call read.
Called == pc # "idle"
Ended == pc \in {"done", "raised"}
KnownSubtype == Called /\ SubtypeName(object_to_transform) \in KnownSubtypes
AttrKeys(obj) == { obj.attrs[i].k : i \in 1 .. Len(obj.attrs) }
AttrValue(obj, k) ==
    LET i == CHOOSE i \in 1 .. Len(obj.attrs) : obj.attrs[i].k = k IN obj.attrs[i].v

\* C5: a font dictionary whose Subtype is none of the six known ones is
\* transformed without raising: the subtype is reported and the call returns
\* no typed object.
C5_UnknownSubtypeDoesNotRaise ==
    (Ended /\ ~KnownSubtype) =>
        /\ pc = "done"
        /\ raised = "None"
        /\ reported
        /\ font_obj = NoneValue

\* C6 as stated: every listener of the call is attached to the new object
\* before any child is transformed, and every child is transformed with the
\* new object as parent and the listeners of the parent call.
C6_SameListenerSet ==
    KnownSubtype =>
        \A i \in 1 .. Len(rootCalls) :
            /\ rootCalls[i].parent # NoneValue
            /\ rootCalls[i].parent.class = font_obj.class
            /\ rootCalls[i].parent.listeners = event_listeners
            /\ rootCalls[i].event_listeners = event_listeners

\* C6, amended: every listener of the call is attached to the new object, in
\* order, before any child is transformed, and every child is transformed
\* with the new object (its parent set to the caller's parent) as parent and
\* with an empty listener list: the listeners are attached to the object of
\* this call only.
C6_ListenersAttachedFirst ==
    KnownSubtype =>
        \A i \in 1 .. Len(rootCalls) :
            /\ rootCalls[i].parent # NoneValue
            /\ rootCalls[i].parent.class = font_obj.class
            /\ rootCalls[i].parent.class = FontClass(SubtypeName(object_to_transform))
            /\ rootCalls[i].parent.parent = parent_object
            /\ rootCalls[i].parent.listeners = event_listeners
            /\ rootCalls[i].event_listeners = <<>>

C6_Witness ==
    /\ KnownSubtype
    /\ pc = "done"
    /\ event_listeners = <<"l2", "l1">>
    /\ parent_object # NoneValue
    /\ Len(rootCalls) = 3
    /\ rootCalls[3].parent.listeners = <<"l2", "l1">>
    /\ rootCalls[3].event_listeners = <<>>

\* C7: after the transform of a font dictionary with a known Subtype, every
\* key other than Parent whose transformed value is not Null is an attribute
\* of the typed object with that value, the keys whose transformed value is
\* Null are absent, and the Parent entry was neither handed to the root
\* transformer nor stored.
C7_AttributeRoundTrip ==
    (pc = "done" /\ KnownSubtype) =>
        /\ \A i \in 1 .. Len(object_to_transform) :
              LET k == object_to_transform[i].k
                  v == object_to_transform[i].v
                  calls == { j \in 1 .. Len(rootCalls) : rootCalls[j].k = k }
              IN  IF k = "Parent"
                  THEN /\ calls = {}
                       /\ k \notin AttrKeys(font_obj)
                       /\ \A j \in 1 .. Len(rootCalls) : rootCalls[j].v # v
                  ELSE /\ Cardinality(calls) = 1
                       /\ \A j \in calls :
                             /\ rootCalls[j].v = v
                             /\ IF rootCalls[j].returned = PDFNull
                                THEN k \notin AttrKeys(font_obj)
                                ELSE /\ k \in AttrKeys(font_obj)
                                     /\ AttrValue(font_obj, k) = rootCalls[j].returned
        /\ AttrKeys(font_obj) \subseteq
              { object_to_transform[i].k : i \in 1 .. Len(object_to_transform) }

C7_Witness ==
    /\ pc = "done"
    /\ KnownSubtype
    /\ Len(object_to_transform) = 5
    /\ object_to_transform[1].k = "FirstChar"
    /\ object_to_transform[1].v = PDFNull
    /\ object_to_transform[3].v = PDFName("Helvetica")
    /\ AttrKeys(font_obj) = {"Type", "Subtype", "BaseFont"}
    /\ AttrValue(font_obj, "BaseFont") = [typed |-> PDFName("Helvetica")]

====
